---- MODULE Spec2Model ----
(***************************************************************************)
(* Obstacle-avoidance environments of robo_gym/envs/ur5/ur5_avoidance.py:  *)
(* MovingBoxTargetUR5, MovingBox3DSplineTargetUR5 and their DoF3 / DoF5    *)
(* subclasses.  One environment instance talks synchronously to a robot    *)
(* server through self.client; reset() and step() are the two operations.  *)
(*                                                                         *)
(* Numbers.  The code computes in floating point; the model computes the   *)
(* same expressions exactly, in fixed-point integers:                      *)
(*   joint angles   1 = 0.01 rad      (-0.78 rad is -78)                   *)
(*   coordinates    1 = 0.01 m        (0.3 m is 30)                        *)
(*   actions        1 = 0.1           (the action box [-1, 1] is -10..10)  *)
(*   normalised     1 = 1/NormUnit    (1.0 is NormUnit)                    *)
(*   rewards        1 = 1/RewardUnit  (1.0 is RewardUnit)                  *)
(* Distances are compared through their squares (d < 0.3 iff d*d < 0.09).  *)
(* Python index i of a sequence is TLA+ index i + 1.                       *)
(***************************************************************************)
EXTENDS Integers, Sequences, FiniteSets, TLC

VARIABLES
    env_class,                  \* which class was instantiated: action size and target function
    elapsed_steps,              \* self.elapsed_steps
    last_position_on_success,   \* self.last_position_on_success ([] is <<>>)
    state,                      \* self.state, the stored observation
    start_position,             \* self.start_position (<<>> before the first assignment)
    prev_rs_state,              \* self.prev_rs_state (<<>> before the first assignment)
    client_calls,               \* requests made on self.client during the most recent call
    call,                       \* the most recent reset/step call: its arguments and its outcome
    step_calls                  \* history: step calls issued since the most recent reset call

vars == <<env_class, elapsed_steps, last_position_on_success, state,
          start_position, prev_rs_state, client_calls, call, step_calls>>

-----------------------------------------------------------------------------
(* Units *)

PosUnit == 10 * 10              \* joint-angle and coordinate units per 1.0
ActionUnit == 2 * 5             \* action units per 1.0
NormUnit == 2 * 314             \* normalised units per 1.0
RewardUnit == 471 * 1000000     \* reward units per 1.0

-----------------------------------------------------------------------------
(* Python / numpy helpers *)

Abs(x) == IF x < 0 THEN -x ELSE x

Min(a, b) == IF a < b THEN a ELSE b

Max(a, b) == IF a > b THEN a ELSE b

\* s[a:b] for 0 <= a <= b
PySlice(s, a, b) == [i \in 1..Max(0, Min(b, Len(s)) - a) |-> s[a + i]]

\* s[-n:]
PyLast(s, n) == PySlice(s, Max(0, Len(s) - n), Len(s))

\* np.zeros(n)
Zeros(n) == [i \in 1..n |-> 0]

RECURSIVE Sum(_)
Sum(s) == IF Len(s) = 0 THEN 0 ELSE Head(s) + Sum(Tail(s))

\* abs(v).sum()
AbsSum(v) == Sum([i \in 1..Len(v) |-> Abs(v[i])])

\* np.square(v).sum()
SquareSum(v) == Sum([i \in 1..Len(v) |-> v[i] * v[i]])

\* a - b, element-wise
VecSub(a, b) == [i \in 1..Len(a) |-> a[i] - b[i]]

\* truth value of a Python list in `if initial_joint_positions:'
Truthy(lst) == Len(lst) # 0

-----------------------------------------------------------------------------
(* Collaborators of the environment: self.ur5, the observation space, the  *)
(* action space and the state lengths of the base class                    *)

\* self._get_robot_server_state_len(): indices 0..25, the collision flag last
RobotServerStateLen == 26

\* self._get_env_state_len(): polar(3) + joint positions(6) + deltas(6)
EnvStateLen == 15

\* self.ur5._ros_joint_list_to_ur5_joint_list: the fixed joint bijection
ros_joint_list_to_ur5_joint_list(j) == <<j[3], j[2], j[1], j[4], j[5], j[6]>>

\* self.ur5._ur_5_joint_list_to_ros_joint_list: its inverse
ur_5_joint_list_to_ros_joint_list(j) == <<j[3], j[2], j[1], j[4], j[5], j[6]>>

\* physical joint range used by the normalisation, 6.28 rad either way
max_joint_positions == [i \in 1..6 |-> 628]

min_joint_positions == [i \in 1..6 |-> -628]

\* self.ur5.normalize_joint_values
normalize_joint_values(joints) ==
    [i \in 1..Len(joints) |->
        IF joints[i] <= 0
        THEN (joints[i] * NormUnit) \div Abs(min_joint_positions[i])
        ELSE (joints[i] * NormUnit) \div Abs(max_joint_positions[i])]

\* The target as seen from the end effector.  The code re-expresses it in
\* polar form; the three components are unbounded in the observation space
\* and are read by diagnostics only, so the model keeps the offset itself.
target_polar(rs_state) == VecSub(PySlice(rs_state, 0, 3), PySlice(rs_state, 18, 21))

\* spaces.Box.contains for the observation space of _get_observation_space:
\* the right shape, the polar part unbounded, joint positions and deltas
\* within [-1.0 - 0.1, 1.0 + 0.1]
observation_space_contains(obs) ==
    /\ Len(obs) = EnvStateLen
    /\ \A i \in 4..EnvStateLen : Abs(obs[i]) * 10 <= NormUnit * 10 + NormUnit

\* spaces.Box.contains for the action space: shape (n,), every component in [-1, 1]
action_space_contains(action) ==
    /\ Len(action) = env_class.action_size
    /\ \A i \in 1..Len(action) : Abs(action[i]) <= ActionUnit

-----------------------------------------------------------------------------
(* MovingBoxTargetUR5 *)

max_episode_steps == 1000

\* _set_initial_joint_positions_range
initial_joint_positions_low == <<-90, -150, -150, -314, 130, 0>>

initial_joint_positions_high == <<-70, -110, -110, 314, 170, 0>>

\* _get_initial_joint_positions: the fixed default configuration, standard order
_get_initial_joint_positions == <<-78, -131, -131, -218, 157, 0>>

\* the observation with the joint velocities kept in it
_robot_server_state_to_env_state_with_velocities(rs_state) ==
    LET ur_j_pos == ros_joint_list_to_ur5_joint_list(PySlice(rs_state, 6, 12))
        ur_j_vel == ros_joint_list_to_ur5_joint_list(PySlice(rs_state, 12, 18))
        ur_j_pos_norm == normalize_joint_values(ur_j_pos)
        start_joints == normalize_joint_values(_get_initial_joint_positions)
        delta_joints == VecSub(ur_j_pos_norm, start_joints)
    IN  target_polar(rs_state) \o ur_j_pos_norm \o ur_j_vel \o delta_joints

\* _robot_server_state_to_env_state
_robot_server_state_to_env_state(rs_state) ==
    LET ur_j_pos == ros_joint_list_to_ur5_joint_list(PySlice(rs_state, 6, 12))
        ur_j_pos_norm == normalize_joint_values(ur_j_pos)
        start_joints == normalize_joint_values(_get_initial_joint_positions)
        delta_joints == VecSub(ur_j_pos_norm, start_joints)
    IN  target_polar(rs_state) \o ur_j_pos_norm \o delta_joints

\* _reward, lines 137-143: minimum and maximum distance, squared distance to the target
minimum_distance == 30

maximum_distance == 60

distance_to_target_sq(rs_state) ==
    SquareSum(VecSub(PySlice(rs_state, 0, 3), PySlice(rs_state, 18, 21)))

\* _reward, lines 160-169: reward for staying close to the starting joint positions
dr_term(env_state) ==
    LET delta_joint_pos == PySlice(env_state, 9, 15)
    IN  IF 2 * AbsSum(PyLast(env_state, 6)) < NormUnit
        THEN ((RewardUnit \div 1000) \div NormUnit) * (NormUnit - 2 * AbsSum(delta_joint_pos))
        ELSE 0

\* _reward, lines 171-175: reward for moving as little as possible
act_r_term(action) ==
    LET size == Len(action)
        sq == ActionUnit * ActionUnit
    IN  IF AbsSum(action) <= size * ActionUnit
        THEN ((RewardUnit \div 1000) \div (sq * size)) * (sq * size - SquareSum(action))
        ELSE 0

\* the minimum-distance penalty with a non-strict comparison
dist_term_non_strict(rs_state) ==
    IF distance_to_target_sq(rs_state) <= minimum_distance * minimum_distance
    THEN -2 * (RewardUnit \div max_episode_steps)
    ELSE 0

\* _reward, lines 177-181: punish if the obstacle gets too close
dist_term(rs_state) ==
    IF distance_to_target_sq(rs_state) < minimum_distance * minimum_distance
    THEN -2 * (RewardUnit \div max_episode_steps)
    ELSE 0

\* _reward, lines 183-187: computed, printed, never added
dist_max_term(rs_state) ==
    IF distance_to_target_sq(rs_state) > maximum_distance * maximum_distance
    THEN -1 * (RewardUnit \div max_episode_steps)
    ELSE 0

\* the info dict: the keys present and their values
EmptyInfo == [keys |-> {}, final_status |-> "", target_coord |-> <<>>]

FinalInfo(status, target_coord) ==
    [keys |-> {"final_status", "target_coord"}, final_status |-> status,
     target_coord |-> target_coord]

\* the episode-length test true on the step that reaches max_episode_steps only
episode_length_reached_exact(elapsed) == elapsed = max_episode_steps

\* the episode-length test one step late
episode_length_reached_late(elapsed) == elapsed > max_episode_steps

\* _reward, line 199: the episode-length test
episode_length_reached(elapsed) == elapsed >= max_episode_steps

\* _reward with a bonus of 1.0 added to the reward of the step that ends the episode
_reward_with_bonus(rs_state, action, elapsed, cache) ==
    LET env_state == _robot_server_state_to_env_state(rs_state)
        target_coord == PySlice(rs_state, 0, 3)
        over == episode_length_reached(elapsed)
        collision == Len(rs_state) > 25 /\ rs_state[26] = 1
        reward == 0 + dr_term(env_state) + act_r_term(action) + dist_term(rs_state)
    IN  [raised |-> IF Len(rs_state) <= 25 THEN "IndexError" ELSE "none",
         reward |-> IF over THEN reward + RewardUnit ELSE reward,
         done |-> collision \/ over,
         info |-> IF over THEN FinalInfo("success", target_coord)
                  ELSE IF collision THEN FinalInfo("collision", target_coord)
                  ELSE EmptyInfo,
         last_position_on_success |-> IF collision \/ over THEN <<>> ELSE cache]

\* _reward storing the joint positions in the cache when the episode ends in success
_reward_storing_position(rs_state, action, elapsed, cache) ==
    LET env_state == _robot_server_state_to_env_state(rs_state)
        target_coord == PySlice(rs_state, 0, 3)
        over == episode_length_reached(elapsed)
        collision == Len(rs_state) > 25 /\ rs_state[26] = 1
        reward == 0 + dr_term(env_state) + act_r_term(action) + dist_term(rs_state)
    IN  [raised |-> IF Len(rs_state) <= 25 THEN "IndexError" ELSE "none",
         reward |-> reward,
         done |-> collision \/ over,
         info |-> IF over THEN FinalInfo("success", target_coord)
                  ELSE IF collision THEN FinalInfo("collision", target_coord)
                  ELSE EmptyInfo,
         last_position_on_success |->
             IF over THEN ros_joint_list_to_ur5_joint_list(PySlice(rs_state, 6, 12))
             ELSE IF collision THEN <<>>
             ELSE cache]

\* _reward(rs_state, action) of an instance whose counter is `elapsed' and whose
\* cache is `cache': what it raises or returns, and the cache it leaves
_reward(rs_state, action, elapsed, cache) ==
    LET env_state == _robot_server_state_to_env_state(rs_state)
        target_coord == PySlice(rs_state, 0, 3)
        reward == 0 + dr_term(env_state) + act_r_term(action) + dist_term(rs_state)
    IN  IF Len(rs_state) <= 25
        THEN \* rs_state[25] does not exist
             [raised |-> "IndexError", reward |-> 0, done |-> FALSE, info |-> EmptyInfo,
              last_position_on_success |-> cache]
        ELSE LET collision == (rs_state[26] = 1)
                 over == episode_length_reached(elapsed)
             IN  [raised |-> "none",
                  reward |-> reward,
                  done |-> collision \/ over,
                  info |-> IF over THEN FinalInfo("success", target_coord)
                           ELSE IF collision THEN FinalInfo("collision", target_coord)
                           ELSE EmptyInfo,
                  last_position_on_success |-> IF collision \/ over THEN <<>> ELSE cache]

-----------------------------------------------------------------------------
(* Records of what the caller passed and what the call did *)

\* an optional list argument: None, or a Python list
None == [given |-> FALSE, value |-> <<>>]

List(v) == [given |-> TRUE, value |-> v]

ClientCall(method, payload, function) ==
    [method |-> method, payload |-> payload, function |-> function]

NoCall ==
    [op |-> "none", initial_joint_positions |-> None, type |-> "", action |-> <<>>,
     raised |-> "none", message |-> "", reward |-> 0, done |-> FALSE,
     info |-> EmptyInfo, returned |-> <<>>]

-----------------------------------------------------------------------------
(* reset *)

\* lines 77-83 (and 364-370): which joint configuration the reset command carries
reset_initial_joint_positions(initial_joint_positions, type, cache) ==
    IF initial_joint_positions.given /\ Truthy(initial_joint_positions.value)
    THEN initial_joint_positions.value
    ELSE IF Len(cache) # 0 /\ type = "continue"
    THEN cache
    ELSE _get_initial_joint_positions

\* line 78 (and 365): the assertion on an explicit configuration fails
reset_assertion_fails(initial_joint_positions) ==
    /\ initial_joint_positions.given
    /\ Truthy(initial_joint_positions.value)
    /\ Len(initial_joint_positions.value) # 6

\* line 118 (and 407): whether the joint-range validation runs
range_check_runs(cache, type) == Len(cache) = 0 \/ type = "random"

\* lines 120-123 (and 409-412): some joint is outside its range by more than the tolerance
tolerance == 10

\* the range test without the tolerance
joint_out_of_range_no_tolerance(joint_positions) ==
    \E joint \in 1..Len(joint_positions) :
        \/ joint_positions[joint] < initial_joint_positions_low[joint]
        \/ joint_positions[joint] > initial_joint_positions_high[joint]

joint_out_of_range(joint_positions) ==
    \E joint \in 1..Len(joint_positions) :
        \/ joint_positions[joint] + tolerance < initial_joint_positions_low[joint]
        \/ joint_positions[joint] - tolerance > initial_joint_positions_high[joint]

\* lines 74, 85, 93-95: the state message of the reset command
reset_state_msg(ur5_initial_joint_positions) ==
    LET ros == ur_5_joint_list_to_ros_joint_list(ur5_initial_joint_positions)
    IN  ClientCall("set_state_msg",
                   [i \in 1..RobotServerStateLen |-> IF i \in 7..12 THEN ros[i - 6] ELSE 0],
                   env_class.function)

\* the requests reset makes on the client: the command, then, when the server
\* accepted it, one telemetry request
reset_client_calls(ur5_initial_joint_positions, accepted) ==
    IF accepted
    THEN <<reset_state_msg(ur5_initial_joint_positions),
           ClientCall("get_state_msg", <<>>, "")>>
    ELSE <<reset_state_msg(ur5_initial_joint_positions)>>

\* the joint deltas saved in place of the joint positions
saved_start_position_deltas(env_state) == PySlice(env_state, 9, 15)

\* line 111 (and 400): the start position saved from the new observation
saved_start_position(env_state) == PySlice(env_state, 3, 9)

\* lines 113-125 (and 402-414): the checks that follow the saving of the start
\* position, and the outcome of the call `this'
reset_checks(this, rs_state, env_state, cache, type) ==
    IF ~observation_space_contains(env_state)
    THEN [this EXCEPT !.raised = "InvalidStateError"]
    ELSE IF /\ range_check_runs(cache, type)
            /\ joint_out_of_range(ros_joint_list_to_ur5_joint_list(PySlice(rs_state, 6, 12)))
    THEN [this EXCEPT !.raised = "InvalidStateError",
                      !.message = "Reset joint positions are not within defined range"]
    ELSE [this EXCEPT !.returned = env_state]

\* reset(initial_joint_positions, type).  The server's answers are drawn where the
\* code asks for them: whether it accepts the command, and the telemetry it then
\* returns, one of rs_states.
reset(initial_joint_positions, type, rs_states) ==
    LET cache == last_position_on_success
        chosen == reset_initial_joint_positions(initial_joint_positions, type, cache)
        this == [NoCall EXCEPT !.op = "reset",
                               !.initial_joint_positions = initial_joint_positions,
                               !.type = type]
    IN  /\ elapsed_steps' = 0
        /\ UNCHANGED <<env_class, last_position_on_success>>
        /\ IF reset_assertion_fails(initial_joint_positions)
           THEN /\ state' = Zeros(EnvStateLen)
                /\ client_calls' = <<>>
                /\ call' = [this EXCEPT !.raised = "AssertionError"]
                /\ UNCHANGED <<start_position, prev_rs_state>>
           ELSE \E accepted \in BOOLEAN :
                /\ client_calls' = reset_client_calls(chosen, accepted)
                /\ IF ~accepted
                   THEN /\ state' = Zeros(EnvStateLen)
                        /\ call' = [this EXCEPT !.raised = "RobotServerError",
                                                !.message = "set_state"]
                        /\ UNCHANGED <<start_position, prev_rs_state>>
                   ELSE \E rs_state \in rs_states :
                        LET env_state == _robot_server_state_to_env_state(rs_state)
                        IN  /\ prev_rs_state' = rs_state
                            /\ IF Len(rs_state) # RobotServerStateLen
                               THEN /\ state' = Zeros(EnvStateLen)
                                    /\ call' = [this EXCEPT
                                         !.raised = "InvalidStateError",
                                         !.message = "Robot Server state received has wrong length"]
                                    /\ UNCHANGED start_position
                               ELSE /\ state' = env_state
                                    /\ start_position' = saved_start_position(env_state)
                                    /\ call' =
                                         reset_checks(this, rs_state, env_state, cache, type)

-----------------------------------------------------------------------------
(* step *)

\* the three-component action added one joint too early
step_joint_command_shifted(action) ==
    LET initial_joint_positions == _get_initial_joint_positions
        scaled == [i \in 1..Len(action) |-> action[i] * (PosUnit \div ActionUnit)]
    IN  IF Len(action) = 3
        THEN [i \in 1..6 |-> IF i \in 1..3 THEN initial_joint_positions[i] + scaled[i]
                             ELSE initial_joint_positions[i]]
        ELSE [i \in 1..6 |-> IF i <= Len(action) THEN initial_joint_positions[i] + scaled[i]
                             ELSE initial_joint_positions[i]]

\* lines 234-242: the joint command in standard order
step_joint_command(action) ==
    LET initial_joint_positions == _get_initial_joint_positions
        scaled == [i \in 1..Len(action) |-> action[i] * (PosUnit \div ActionUnit)]
    IN  IF Len(action) = 3
        THEN [i \in 1..6 |-> IF i \in 2..4 THEN initial_joint_positions[i] + scaled[i - 1]
                             ELSE initial_joint_positions[i]]
        ELSE IF Len(action) = 5
        THEN [i \in 1..6 |-> IF i \in 1..5 THEN initial_joint_positions[i] + scaled[i]
                             ELSE initial_joint_positions[i]]
        ELSE IF Len(action) = 6
        THEN [i \in 1..6 |-> initial_joint_positions[i] + scaled[i]]
        ELSE initial_joint_positions

\* a rejected command sent a second time
step_client_calls_retry(rs_action, accepted) ==
    IF accepted
    THEN <<ClientCall("send_action", rs_action, ""), ClientCall("get_state_msg", <<>>, "")>>
    ELSE <<ClientCall("send_action", rs_action, ""), ClientCall("send_action", rs_action, "")>>

\* the requests step makes on the client: the command, then, when the server
\* accepted it, one telemetry request
step_client_calls(rs_action, accepted) ==
    IF accepted
    THEN <<ClientCall("send_action", rs_action, ""), ClientCall("get_state_msg", <<>>, "")>>
    ELSE <<ClientCall("send_action", rs_action, "")>>

\* the counter stopping at max_episode_steps
incremented_saturating(elapsed) ==
    IF elapsed >= max_episode_steps THEN elapsed ELSE elapsed + 1

\* line 227: self.elapsed_steps += 1
incremented(elapsed) == elapsed + 1

\* step(action).  The server's answers are drawn where the code asks for them.
step(action, rs_states) ==
    LET rs_action == ur_5_joint_list_to_ros_joint_list(step_joint_command(action))
        this == [NoCall EXCEPT !.op = "step", !.action = action]
    IN  /\ elapsed_steps' = incremented(elapsed_steps)
        /\ UNCHANGED <<env_class, start_position>>
        /\ IF ~action_space_contains(action)
           THEN /\ client_calls' = <<>>
                /\ call' = [this EXCEPT !.raised = "AssertionError"]
                /\ UNCHANGED <<last_position_on_success, state, prev_rs_state>>
           ELSE \E accepted \in BOOLEAN :
                /\ client_calls' = step_client_calls(rs_action, accepted)
                /\ IF ~accepted
                   THEN /\ call' = [this EXCEPT !.raised = "RobotServerError",
                                                !.message = "send_action"]
                        /\ UNCHANGED <<last_position_on_success, state, prev_rs_state>>
                   ELSE \E rs_state \in rs_states :
                        LET env_state == _robot_server_state_to_env_state(rs_state)
                            r == _reward(rs_state, action, elapsed_steps',
                                         last_position_on_success)
                        IN  /\ prev_rs_state' = rs_state
                            /\ state' = env_state
                            /\ IF ~observation_space_contains(env_state)
                               THEN /\ call' = [this EXCEPT !.raised = "InvalidStateError"]
                                    /\ UNCHANGED last_position_on_success
                               ELSE /\ last_position_on_success' = r.last_position_on_success
                                    /\ call' =
                                         IF r.raised # "none"
                                         THEN [this EXCEPT !.raised = r.raised]
                                         ELSE [this EXCEPT !.reward = r.reward,
                                                           !.done = r.done,
                                                           !.info = r.info,
                                                           !.returned = env_state]

-----------------------------------------------------------------------------
(* The inputs explored *)

\* the six classes: action size 6, 3 or 5, target function triangle wave or 3D spline
EnvClasses ==
    {[action_size |-> n, function |-> f] : n \in {3, 5, 6}, f \in {"triangle_wave", "3d_spline"}}

\* a telemetry vector: target, joint positions (given in standard order, stored in
\* robot-native order), end-effector position, identity orientation, collision flag
Telemetry(target, joints, ee, collision) ==
    target \o <<0, 0, 0>> \o ur_5_joint_list_to_ros_joint_list(joints) \o Zeros(6)
           \o ee \o <<0, 0, 0, 1>> \o <<collision>>

EE == <<10, 0, 0>>

TargetAt(offset) == [i \in 1..3 |-> EE[i] + offset[i]]

JointsDefault == <<-78, -131, -131, -218, 157, 0>>

\* joint 0 exactly on the edge of the tolerated range: -1.00 + 0.1 = low
JointsEdge == <<-100, -131, -131, -218, 157, 0>>

\* joint 0 just beyond the tolerated range, still inside the observation space
JointsOutOfRange == <<-101, -131, -131, -218, 157, 0>>

\* joint 4 just above the tolerated range: 1.81 - 0.1 > high
JointsAbove == <<-78, -131, -131, -218, 181, 0>>

\* joint 3 far from the default: the deltas sum to more than 0.5
JointsFar == <<-78, -131, -131, 100, 157, 0>>

\* joint 3 outside the observation space: 7.0 / 6.28 > 1.1
JointsOutOfBox == <<-78, -131, -131, 700, 157, 0>>

Mid == Telemetry(TargetAt(<<40, 0, 0>>), JointsDefault, EE, 0)

StepTelemetry ==
    { Telemetry(TargetAt(<<18, 24, 0>>), JointsDefault, EE, 0),    \* distance exactly 0.3
      Telemetry(TargetAt(<<10, 0, 0>>), JointsDefault, EE, 0),     \* distance 0.1
      Telemetry(TargetAt(<<36, 48, 0>>), JointsDefault, EE, 0),    \* distance exactly 0.6
      Telemetry(TargetAt(<<70, 0, 0>>), JointsDefault, EE, 0),     \* distance 0.7
      Telemetry(TargetAt(<<10, 0, 0>>), JointsDefault, EE, 1),     \* collision
      Telemetry(TargetAt(<<40, 0, 0>>), JointsFar, EE, 0),
      Telemetry(TargetAt(<<40, 0, 0>>), JointsOutOfBox, EE, 0),
      PySlice(Mid, 0, 25) }                                        \* one element short

ResetTelemetry ==
    { Mid,
      Telemetry(TargetAt(<<40, 0, 0>>), JointsEdge, EE, 0),
      Telemetry(TargetAt(<<40, 0, 0>>), JointsOutOfRange, EE, 0),
      Telemetry(TargetAt(<<40, 0, 0>>), JointsAbove, EE, 0),
      Telemetry(TargetAt(<<40, 0, 0>>), JointsOutOfBox, EE, 0),
      PySlice(Mid, 0, 25) }

\* actions offered to step: all zeros, a mixed one, all ones (each of the class's
\* size), one component outside the box, one of the wrong size
Actions ==
    LET n == env_class.action_size
    IN  { Zeros(n),
          [i \in 1..n |-> IF i = 1 THEN 5 ELSE IF i = 2 THEN -10 ELSE 0],
          [i \in 1..n |-> IF i = 1 THEN 11 ELSE 0],
          Zeros(n - 1) }

ExplicitJoints == <<-80, -120, -120, -200, 150, 0>>

\* values passed as initial_joint_positions: None, lists of 0, 5, 6 and 7 elements
InitialJointArgs ==
    { None, List(<<>>), List(PySlice(ExplicitJoints, 0, 5)), List(ExplicitJoints),
      List(ExplicitJoints \o <<0>>) }

ResetTypes == {"random", "continue"}

\* a configuration found in the continuation cache
CachedJoints == <<-72, -115, -115, 50, 160, 0>>

\* step calls explored without a reset in between
MaxElapsed == 2

-----------------------------------------------------------------------------
(* The environment as a state machine *)

\* after construction (UR5Env.__init__): the counter at zero, nothing stored;
\* the continuation cache is empty or holds a configuration
InitOf(classes) ==
    /\ env_class \in classes
    /\ elapsed_steps = 0
    /\ last_position_on_success \in {<<>>, CachedJoints}
    /\ state = Zeros(EnvStateLen)
    /\ start_position = <<>>
    /\ prev_rs_state = <<>>
    /\ client_calls = <<>>
    /\ call = NoCall
    /\ step_calls = 0

Init == InitOf(EnvClasses)

ResetCall ==
    /\ \E initial_joint_positions \in InitialJointArgs, type \in ResetTypes :
        reset(initial_joint_positions, type, ResetTelemetry)
    /\ step_calls' = 0

StepCall ==
    /\ step_calls < MaxElapsed
    /\ \E action \in Actions : step(action, StepTelemetry)
    /\ step_calls' = step_calls + 1

Next == ResetCall \/ StepCall

\* every input above, episodes of at most MaxElapsed steps
Spec == Init /\ [][Next]_vars

-----------------------------------------------------------------------------
(* Whole episodes: the counter runs past max_episode_steps, with fewer inputs *)

\* step calls explored without a reset in between
MaxEpisodeElapsed == 1002

EpisodeClasses == {[action_size |-> 3, function |-> "3d_spline"]}

EpisodeTelemetry ==
    { Mid,
      Telemetry(TargetAt(<<10, 0, 0>>), JointsDefault, EE, 1),     \* collision
      Telemetry(TargetAt(<<40, 0, 0>>), JointsOutOfBox, EE, 0) }

EpisodeActions ==
    LET n == env_class.action_size
    IN  { Zeros(n), [i \in 1..n |-> IF i = 1 THEN 11 ELSE 0] }

InitEpisode == InitOf(EpisodeClasses)

EpisodeResetTelemetry ==
    { Mid, Telemetry(TargetAt(<<40, 0, 0>>), JointsOutOfRange, EE, 0) }

EpisodeReset ==
    /\ \E type \in ResetTypes : reset(None, type, EpisodeResetTelemetry)
    /\ step_calls' = 0

EpisodeStep ==
    /\ step_calls < MaxEpisodeElapsed
    /\ \E action \in EpisodeActions : step(action, EpisodeTelemetry)
    /\ step_calls' = step_calls + 1

NextEpisode == EpisodeReset \/ EpisodeStep

SpecEpisode == InitEpisode /\ [][NextEpisode]_vars

-----------------------------------------------------------------------------
(* Properties *)

\* the most recent call was a step that returned (observation, reward, done, info)
StepReturned == call.op = "step" /\ call.raised = "none"

\* the telemetry of the most recent call has the collision flag (index 25) set
CollisionFlagSet == Len(prev_rs_state) > 25 /\ prev_rs_state[26] = 1

\* C1: every step whose telemetry has the collision flag set returns done=true
\* with final_status "collision" and leaves the continuation cache empty,
\* whatever the elapsed step counter, the step that reaches max_episode_steps
\* included.
C1_CollisionReported ==
    (StepReturned /\ CollisionFlagSet) =>
        /\ call.done
        /\ "final_status" \in call.info.keys
        /\ call.info.final_status = "collision"
        /\ last_position_on_success = <<>>

\* C2: a step that returns on telemetry without the collision flag returns
\* done=false and no final_status while the counter is below max_episode_steps,
\* and done=true, final_status "success" and an empty continuation cache on the
\* step at which the counter reaches max_episode_steps.
C2_EpisodeLength ==
    (StepReturned /\ ~CollisionFlagSet) =>
        /\ elapsed_steps < 1000 =>
              /\ ~call.done
              /\ "final_status" \notin call.info.keys
        /\ elapsed_steps = 1000 =>
              /\ call.done
              /\ "final_status" \in call.info.keys
              /\ call.info.final_status = "success"
              /\ last_position_on_success = <<>>

\* C2 witness: the step that brings the counter to max_episode_steps returned on
\* telemetry without a collision, and reported success
C2_Witness ==
    /\ StepReturned
    /\ ~CollisionFlagSet
    /\ elapsed_steps = 1000
    /\ call.done
    /\ call.info.final_status = "success"

\* the joint configuration carried by the first request of the most recent call,
\* in standard order
CommandedJoints ==
    LET payload == client_calls[1].payload
    IN  IF client_calls[1].method = "set_state_msg"
        THEN ros_joint_list_to_ur5_joint_list(PySlice(payload, 6, 12))
        ELSE ros_joint_list_to_ur5_joint_list(payload)

\* C3: the joint command of a step is the default configuration with the action
\* added on indices 1..3 (length 3), 0..4 (length 5) or 0..5 (length 6), and the
\* default value everywhere else, whatever happened before the step.
C3_JointCommand ==
    (call.op = "step" /\ client_calls # <<>>) =>
        LET a == call.action
            first == IF Len(a) = 3 THEN 1 ELSE 0
            default == <<-78, -131, -131, -218, 157, 0>>
        IN  /\ client_calls[1].method = "send_action"
            /\ Len(a) \in {3, 5, 6}
            /\ CommandedJoints =
                 [i \in 1..6 |->
                    IF (i - 1) \in first..(first + Len(a) - 1)
                    THEN default[i] + 10 * a[i - first]
                    ELSE default[i]]
            /\ (Len(a) = 6 /\ \A i \in 1..6 : a[i] = 0) => CommandedJoints = default

\* C3 witness: a three-component action with non-zero components was commanded
\* in an episode started by an earlier reset
C3_Witness ==
    /\ call.op = "step"
    /\ client_calls # <<>>
    /\ Len(call.action) = 3
    /\ call.action[1] # 0
    /\ call.action[2] # 0
    /\ start_position # <<>>

\* C4: the configuration in the reset command is the explicit input whenever one
\* is provided, else the cached configuration when mode=continue and the cache
\* is not empty, else the default configuration.
C4_ResetPriority ==
    (call.op = "reset" /\ client_calls # <<>>) =>
        CommandedJoints =
            IF call.initial_joint_positions.given
            THEN call.initial_joint_positions.value
            ELSE IF call.type = "continue" /\ last_position_on_success # <<>>
            THEN last_position_on_success
            ELSE <<-78, -131, -131, -218, 157, 0>>

\* C5: a reset given an explicit configuration whose length is not 6 fails the
\* argument check and sends no reset command.
C5_WrongArityRejected ==
    ( /\ call.op = "reset"
      /\ call.initial_joint_positions.given
      /\ Len(call.initial_joint_positions.value) # 6 ) =>
        /\ call.raised = "AssertionError"
        /\ client_calls = <<>>

\* the first request of the most recent call is the call's command
CommandFirst ==
    client_calls[1].method = IF call.op = "step" THEN "send_action" ELSE "set_state_msg"

\* one command; then one telemetry request, unless the server rejected the
\* command, and then the call failed with the server error
OneCommandThenTelemetry ==
    /\ Len(client_calls) \in {1, 2}
    /\ CommandFirst
    /\ Len(client_calls) = 2 =>
          /\ client_calls[2].method = "get_state_msg"
          /\ call.raised # "RobotServerError"
    /\ Len(client_calls) = 1 => call.raised = "RobotServerError"

\* C6: every step call and every reset call issues exactly one command followed
\* by exactly one telemetry request, never the other way round, never a second
\* command, and no telemetry request when the server rejects the command.
C6_EveryCallOneCommand ==
    call.op \in {"step", "reset"} => OneCommandThenTelemetry

\* C6 as amended: that holds of every call that gets past its argument check;
\* a call whose argument check fails issues no request at all.
C6_CheckedCallOneCommand ==
    call.op \in {"step", "reset"} =>
        IF call.raised = "AssertionError"
        THEN client_calls = <<>>
        ELSE OneCommandThenTelemetry

\* C6 witness: a step whose command the server rejected
C6_Witness ==
    /\ call.op = "step"
    /\ call.raised = "RobotServerError"
    /\ Len(client_calls) = 1

\* what a second instance, just reset (counter at 1 on its first step, empty
\* cache), returns for the telemetry and the action of the most recent step
FreshInstanceResult == _reward(prev_rs_state, call.action, 1, <<>>)

\* C7: reward, done and info of a step depend on the telemetry and the action
\* alone: an instance in any reachable episode state returns what a freshly
\* reset instance returns for the same telemetry and action.
C7_SameInputsSameResult ==
    StepReturned =>
        /\ call.reward = FreshInstanceResult.reward
        /\ call.done = FreshInstanceResult.done
        /\ call.info = FreshInstanceResult.info

\* C7 as amended: the reward depends on the telemetry and the action alone; done
\* and info do so while the counter is below max_episode_steps, and from then
\* on every returning step reports done=true with final_status "success".
C7_RewardDeterministic ==
    StepReturned =>
        /\ call.reward = FreshInstanceResult.reward
        /\ elapsed_steps < 1000 =>
              /\ call.done = FreshInstanceResult.done
              /\ call.info = FreshInstanceResult.info
        /\ elapsed_steps >= 1000 =>
              /\ call.done
              /\ call.info.final_status = "success"

\* C7 witness: a step returned at the end of an episode on telemetry for which
\* a fresh instance reports done=false
C7_Witness ==
    /\ StepReturned
    /\ elapsed_steps >= 1000
    /\ ~FreshInstanceResult.done
    /\ call.reward = FreshInstanceResult.reward
    /\ last_position_on_success = <<>>

\* squared distance between target and end effector in the telemetry of the
\* most recent call
DistanceSq ==
    (prev_rs_state[1] - prev_rs_state[19]) * (prev_rs_state[1] - prev_rs_state[19])
    + (prev_rs_state[2] - prev_rs_state[20]) * (prev_rs_state[2] - prev_rs_state[20])
    + (prev_rs_state[3] - prev_rs_state[21]) * (prev_rs_state[3] - prev_rs_state[21])

\* C8: the reward of a step is dr + act_r + dist, where dist is
\* -2/max_episode_steps exactly when the distance is below 0.3 (not at 0.3)
\* and 0 otherwise; the maximum-distance penalty never enters the total.
C8_RewardTotal ==
    StepReturned =>
        call.reward = dr_term(state) + act_r_term(call.action)
                      + (IF DistanceSq < 30 * 30 THEN -2 * (RewardUnit \div 1000) ELSE 0)

\* C8 witness: a step returned with the target exactly 0.3 m from the end effector
C8_Witness ==
    /\ StepReturned
    /\ DistanceSq = 30 * 30
    /\ call.reward = dr_term(state) + act_r_term(call.action)

\* C8, second case: a step returned with the target more than 0.6 m away and
\* the reward unchanged by it
C8_WitnessFar ==
    /\ StepReturned
    /\ DistanceSq > 60 * 60
    /\ dist_max_term(prev_rs_state) < 0
    /\ call.reward = dr_term(state) + act_r_term(call.action)

\* this transition is a reset call that fails with one of the given errors, in an
\* instance that has a start position recorded by an earlier reset
ResetFailed(errors) ==
    /\ start_position # <<>>
    /\ call'.op = "reset"
    /\ call'.raised \in errors
    /\ vars' # vars

\* C9: a reset that fails with a state error or a server error leaves the
\* recorded start position and the stored observation as they were.
C9_FailedResetChangesNothing ==
    [][ResetFailed({"InvalidStateError", "RobotServerError"}) =>
          /\ start_position' = start_position
          /\ state' = state]_vars

\* the reset failed after the start position was saved: on the bounding-box check
\* or on the joint-range validation
FailedLate ==
    /\ call'.raised = "InvalidStateError"
    /\ call'.message # "Robot Server state received has wrong length"

\* C9 as amended: reset zeroes the stored observation first and saves the start
\* position before the bounding-box check and the joint-range validation.  A
\* reset that fails on the server or on the telemetry length leaves the start
\* position as it was and the stored observation all zeros; one that fails on a
\* later check has stored the new observation and saved its joint positions.
C9_FailedResetPartialUpdate ==
    [][ResetFailed({"InvalidStateError", "RobotServerError"}) =>
          IF FailedLate
          THEN /\ state' = _robot_server_state_to_env_state(prev_rs_state')
               /\ start_position' = normalize_joint_values(
                      ros_joint_list_to_ur5_joint_list(PySlice(prev_rs_state', 6, 12)))
          ELSE /\ state' = Zeros(15)
               /\ start_position' = start_position]_vars

\* C9 witness: a reset failed the joint-range validation, and the start position
\* is the one of the rejected telemetry
C9_Witness ==
    /\ call.op = "reset"
    /\ call.message = "Reset joint positions are not within defined range"
    /\ elapsed_steps = 0
    /\ start_position = <<-101, -131, -131, -218, 157, 0>>
    /\ state # Zeros(15)

\* joint positions of the telemetry of the most recent call, in standard order
AchievedJoints == <<prev_rs_state[9], prev_rs_state[8], prev_rs_state[7],
                    prev_rs_state[10], prev_rs_state[11], prev_rs_state[12]>>

\* some achieved joint position p has p + 0.1 < low or p - 0.1 > high
OutsideTolerance ==
    LET low == <<-90, -150, -150, -314, 130, 0>>
        high == <<-70, -110, -110, 314, 170, 0>>
    IN  \E j \in 1..6 : AchievedJoints[j] + 10 < low[j] \/ AchievedJoints[j] - 10 > high[j]

RangeError == call.message = "Reset joint positions are not within defined range"

\* C10: the joint-range validation of reset runs exactly when mode is random or
\* the cache is empty; when it runs, reset fails if and only if some joint is
\* outside its range by more than 0.1; and it comes only after the
\* telemetry-length check and the bounding-box check have passed.
C10_RangeValidation ==
    (call.op = "reset" /\ Len(client_calls) = 2) =>
        LET passed == /\ Len(prev_rs_state) = 26
                      /\ observation_space_contains(state)
            runs == call.type = "random" \/ last_position_on_success = <<>>
        IN  /\ RangeError <=> (passed /\ runs /\ OutsideTolerance)
            /\ call.raised = "none" <=> (passed /\ ~(runs /\ OutsideTolerance))
            /\ RangeError => call.raised = "InvalidStateError"

\* C10 witness: a reset in mode continue with a non-empty cache returned although
\* a joint was outside the tolerated range
C10_Witness ==
    /\ call.op = "reset"
    /\ call.raised = "none"
    /\ call.type = "continue"
    /\ last_position_on_success # <<>>
    /\ OutsideTolerance

\* C10, second case: a joint exactly 0.1 below its range passed the validation
C10_WitnessEdge ==
    /\ call.op = "reset"
    /\ call.raised = "none"
    /\ call.type = "random"
    /\ AchievedJoints[1] + 10 = -90

\* C11: the elapsed step counter is 0 after every reset call and one more after
\* every step call, failing calls included, so that it always equals the number
\* of step calls issued since the most recent reset call.
C11_CounterCountsStepCalls ==
    /\ elapsed_steps = step_calls
    /\ call.op = "reset" => elapsed_steps = 0
    /\ call.op = "step" => elapsed_steps >= 1

\* C11 witness: the counter counted a step that failed on its telemetry, late in
\* an episode
C11_Witness ==
    /\ call.op = "step"
    /\ call.raised = "InvalidStateError"
    /\ elapsed_steps = 1001
    /\ step_calls = 1001

\* C11, further cases: a step rejected for its action, and a failed reset
C11_WitnessAssertion ==
    /\ call.op = "step"
    /\ call.raised = "AssertionError"
    /\ elapsed_steps = 2

C11_WitnessReset ==
    /\ call.op = "reset"
    /\ call.raised = "RobotServerError"
    /\ elapsed_steps = 0
    /\ start_position # <<>>

\* the most recent call was a step that stored an observation
StepStoredObservation == call.op = "step" /\ Len(client_calls) = 2

\* Python indices of the observation read by the dr gating condition, env_state[-6:]
GatingIndices == {i \in 0..(Len(state) - 1) : i >= Len(state) - 6}

\* Python indices of the observation read for the dr magnitude, env_state[9:15]
MagnitudeIndices == {i \in 0..(Len(state) - 1) : 9 <= i /\ i < 15}

\* sum of the absolute normalised joint deltas of the telemetry of the most recent call
DeltaAbsSum ==
    LET now == normalize_joint_values(AchievedJoints)
        start == normalize_joint_values(<<-78, -131, -131, -218, 157, 0>>)
    IN  Sum([j \in 1..6 |-> Abs(now[j] - start[j])])

\* the dr part of the reward of the most recent step
DrPart ==
    call.reward - act_r_term(call.action)
        - (IF DistanceSq < 30 * 30 THEN -2 * (RewardUnit \div 1000) ELSE 0)

\* C12: the dr magnitude is read from observation indices 9:15, a different
\* slice than the last 6 components the dr gating condition is evaluated on.
C12_DifferentSlices ==
    StepStoredObservation => GatingIndices # MagnitudeIndices

\* C12 as amended: the observation has 15 components, so indices 9:15 are its
\* last 6 components: the joint deltas both gate dr and size it.
C12_SameSlice ==
    /\ StepStoredObservation =>
          /\ GatingIndices = MagnitudeIndices
          /\ PyLast(state, 6) = PySlice(state, 9, 15)
          /\ AbsSum(PySlice(state, 9, 15)) = DeltaAbsSum
    /\ StepReturned =>
          DrPart = IF 2 * DeltaAbsSum < NormUnit
                   THEN ((RewardUnit \div 1000) \div NormUnit) * (NormUnit - 2 * DeltaAbsSum)
                   ELSE 0

\* C12 witness: a step returned with joint deltas summing to more than 0.5, and
\* dr inactive
C12_Witness ==
    /\ StepReturned
    /\ 2 * AbsSum(PyLast(state, 6)) >= NormUnit
    /\ PyLast(state, 6) = PySlice(state, 9, 15)
    /\ DrPart = 0

\* C12, second case: a step returned with dr active
C12_WitnessActive ==
    /\ StepReturned
    /\ 2 * AbsSum(PyLast(state, 6)) < NormUnit
    /\ DrPart > 0

\* the configuration a reset without a usable cache puts in its command: the
\* explicit list when one is given and not empty, else the default
WithoutCache ==
    IF call.initial_joint_positions.given /\ call.initial_joint_positions.value # <<>>
    THEN call.initial_joint_positions.value
    ELSE <<-78, -131, -131, -218, 157, 0>>

\* C13: no operation stores a non-empty value into the continuation cache, a
\* write only clears it.  So a cache that is empty stays empty, and with an
\* empty cache a reset in mode continue commands what a reset in mode random
\* commands and the joint-range validation is never skipped.
C13_CacheOnlyCleared ==
    /\ [][\/ last_position_on_success' = last_position_on_success
          \/ last_position_on_success' = <<>>]_vars
    /\ []((last_position_on_success = <<>> /\ call.op = "reset") =>
            /\ client_calls # <<>> => CommandedJoints = WithoutCache
            /\ ( /\ Len(client_calls) = 2
                 /\ Len(prev_rs_state) = 26
                 /\ observation_space_contains(state)
                 /\ OutsideTolerance ) => RangeError)

\* C13 witness: a reset in mode continue found the cache empty, commanded the
\* default configuration and failed the joint-range validation
C13_Witness ==
    /\ call.op = "reset"
    /\ Len(client_calls) = 2
    /\ call.type = "continue"
    /\ last_position_on_success = <<>>
    /\ CommandedJoints = <<-78, -131, -131, -218, 157, 0>>
    /\ OutsideTolerance
    /\ RangeError

\* C13, the writes: a step cleared the cache at the end of an episode
C13_WitnessCleared ==
    /\ StepReturned
    /\ elapsed_steps = 1000
    /\ ~CollisionFlagSet
    /\ last_position_on_success = <<>>

\* this transition is a step call that returns
StepReturns == step_calls' = step_calls + 1 /\ call'.raised = "none"

\* the step before this transition returned done=true on a collision alone
CollisionEndedEpisode == StepReturned /\ call.done /\ elapsed_steps < 1000

\* once the counter has reached max_episode_steps, a further step without a
\* reset is carried out (the command is sent) and returns done=true, "success"
StickySuccess ==
    (elapsed_steps >= 1000 /\ StepReturns) =>
        /\ client_calls'[1].method = "send_action"
        /\ call'.done
        /\ call'.info.final_status = "success"

\* C14: termination by episode length is sticky and never blocks a step; after
\* a done=true caused by a collision alone, the next step without a reset
\* returns done=false as soon as the collision flag is no longer set.
C14_StickyTermination ==
    [][/\ StickySuccess
       /\ (CollisionEndedEpisode /\ StepReturns /\ prev_rs_state'[26] # 1) =>
             ~call'.done]_vars

\* C14 as amended: the same, the step after the collision returning done=false
\* provided its own counter is still below max_episode_steps.
C14_StickyTerminationBelowMax ==
    [][/\ StickySuccess
       /\ (CollisionEndedEpisode /\ StepReturns /\ prev_rs_state'[26] # 1) =>
             (call'.done <=> elapsed_steps' >= 1000)]_vars

\* C14 witness: the second step after the one that ended the episode was sent to
\* the robot and returned done=true, "success"
C14_Witness ==
    /\ StepReturned
    /\ elapsed_steps = 1002
    /\ Len(client_calls) = 2
    /\ client_calls[1].method = "send_action"
    /\ call.done
    /\ call.info.final_status = "success"

\* C14, second case: a step without the collision flag returned done=false in an
\* episode whose cache a collision had cleared
C14_WitnessAfterCollision ==
    /\ StepReturned
    /\ ~CollisionFlagSet
    /\ ~call.done
    /\ elapsed_steps = 999
    /\ last_position_on_success = <<>>

====
